---- MODULE Spec2Model ----
(***************************************************************************)
(* A model of the Merkle Patricia Trie engine of src/src/trie.rs over the  *)
(* in-memory store of src/src/db.rs.                                       *)
(*                                                                         *)
(* Data representation                                                     *)
(*   bytes      a sequence of integers 0..255                              *)
(*   Nibbles    a sequence of 0..16; 16 is the terminator that from_raw    *)
(*              appends and that trie.rs tests with partial.at(0) == 16    *)
(*   Option     <<>> is None, <<x>> is Some(x)                             *)
(*   RLP item   [rlp |-> "data", bytes], [rlp |-> "hash", h] (the 32 bytes *)
(*              of a digest) or [rlp |-> "list", items]; an encoded blob   *)
(*              is an item, and its byte length is RlpSize                 *)
(*   H256       keccak256 is modelled as an injective constructor: the     *)
(*              digest of a blob is the record [pre |-> blob]              *)
(*   Node       [t |-> "Empty"], [t |-> "Leaf", key, value],               *)
(*              [t |-> "Extension", prefix, node],                         *)
(*              [t |-> "Branch", children, value], [t |-> "Hash", hash]    *)
(***************************************************************************)
EXTENDS Integers, Sequences, FiniteSets, TLC

\* ------------------------------------------------------------------------
\* Bounds of the model
\* ------------------------------------------------------------------------

\* The number of mutating calls (insert, remove, root, from) in one run.
MaxOps == 5

\* The number of mutating calls in a run with proofs.
MaxProofOps == 4

\* The number of mutating calls in a run with altered proofs.
MaxTamperOps == 3

\* The number of mutating calls in a run with every kind of read.
MaxAllOps == 3

\* The number of mutating calls in a run over an archive store.
MaxArchiveOps == 5

\* The number of mutating calls in a run with values of graded lengths.
MaxThresholdOps == 4

\* The shortest and the longest of the graded values, in bytes.
MinValueLen == 27

MaxValueLen == 30

\* The number of mutating calls in a run that steps an iterator.
MaxFrameOps == 4

\* The number of turns of the loop of next() one iteration may take.
MaxIterSteps == 200

\* ------------------------------------------------------------------------
\* Program constants
\* ------------------------------------------------------------------------

HASH_LEN == 32

\* ------------------------------------------------------------------------
\* Option and Result
\* ------------------------------------------------------------------------

None == <<>>

Some(x) == <<x>>

Ok(x) == [ok |-> TRUE, val |-> x]

Err(e) == [ok |-> FALSE, err |-> e]

\* F applied to the value of x, which is evaluated once.
Let(x, F(_)) == F(x)

\* ------------------------------------------------------------------------
\* Nibble paths (module nibbles)
\* ------------------------------------------------------------------------

Min(a, b) == IF a < b THEN a ELSE b

\* Nibbles::from_raw(raw, is_leaf): two nibbles per byte, high nibble first,
\* then the terminator 16 when is_leaf.
from_raw(raw, is_leaf) ==
    LET hex == [i \in 1..(2 * Len(raw)) |->
                   IF i % 2 = 1 THEN raw[(i + 1) \div 2] \div 16
                                ELSE raw[i \div 2] % 16]
    IN IF is_leaf THEN Append(hex, 16) ELSE hex

\* Nibbles::from_hex
from_hex(hex) == hex

\* Nibbles::at(i), zero-based as in the source.
at(p, i) == p[i + 1]

\* Nibbles::slice(start, end), zero-based, end exclusive.
slice(p, start, end) == SubSeq(p, start + 1, end)

\* Nibbles::offset(index)
offset(p, index) == slice(p, index, Len(p))

\* Nibbles::join
join(p, q) == p \o q

\* Nibbles::common_prefix: the length of the longest shared prefix.
RECURSIVE common_prefix_from(_, _, _)

\* The loop of common_prefix, from index i.
common_prefix_from(p, q, i) ==
    IF i < Min(Len(p), Len(q)) /\ p[i + 1] = q[i + 1]
    THEN common_prefix_from(p, q, i + 1)
    ELSE i

common_prefix(p, q) == common_prefix_from(p, q, 0)

\* Nibbles::is_leaf: the path ends with the terminator.
is_leaf(p) == Len(p) > 0 /\ p[Len(p)] = 16

\* The payload nibbles of a path: the path without its terminator.
payload(p) == IF is_leaf(p) THEN SubSeq(p, 1, Len(p) - 1) ELSE p

\* Two nibbles per byte.
pack(hex) == [i \in 1..(Len(hex) \div 2) |-> hex[2 * i - 1] * 16 + hex[2 * i]]

\* Nibbles::encode_compact: the hex-prefix encoding. The leading nibble
\* carries the leaf bit (2) and the odd-length bit (1).
encode_compact(p) ==
    LET hex == payload(p)
        flag == IF is_leaf(p) THEN 32 ELSE 0
    IN IF Len(hex) % 2 = 1
       THEN <<16 + hex[1] + flag>> \o pack(SubSeq(hex, 2, Len(hex)))
       ELSE <<flag>> \o pack(hex)

\* Nibbles::from_compact: the inverse of encode_compact.
from_compact(compact) ==
    LET flag == compact[1] \div 16
        first == IF flag % 2 = 1 THEN <<compact[1] % 16>> ELSE <<>>
        rest == from_raw(SubSeq(compact, 2, Len(compact)), FALSE)
        hex == first \o rest
    IN IF flag \div 2 = 1 THEN Append(hex, 16) ELSE hex

\* Nibbles::encode_raw: the packed bytes of the payload nibbles.
encode_raw_nibbles(p) == pack(payload(p))

\* ------------------------------------------------------------------------
\* The digest function and the list codec (external collaborators)
\* ------------------------------------------------------------------------

\* keccak256, modelled as injective.
keccak256(data) == [pre |-> data]

RlpData(b) == [rlp |-> "data", bytes |-> b]

RlpHash(h) == [rlp |-> "hash", h |-> h]

RlpList(xs) == [rlp |-> "list", items |-> xs]

\* rlp::NULL_RLP, the encoding of the empty byte string (0x80).
NULL_RLP == RlpData(<<>>)

\* The bytes a length header needs beyond its first byte.
LenOfLen(n) == IF n <= 55 THEN 0 ELSE IF n < 256 THEN 1 ELSE 2

RECURSIVE RlpSize(_)
RECURSIVE SumSizes(_, _)

\* The sum of the encoded sizes of items[1..n].
SumSizes(items, n) ==
    IF n = 0 THEN 0 ELSE SumSizes(items, n - 1) + RlpSize(items[n])

\* The length in bytes of the encoding of an item.
RlpSize(x) ==
    CASE x.rlp = "hash" -> 1 + HASH_LEN
      [] x.rlp = "data" ->
            IF Len(x.bytes) = 1 /\ x.bytes[1] < 128 THEN 1
            ELSE 1 + LenOfLen(Len(x.bytes)) + Len(x.bytes)
      [] x.rlp = "list" ->
            Let(SumSizes(x.items, Len(x.items)), LAMBDA n : 1 + LenOfLen(n) + n)

\* ------------------------------------------------------------------------
\* Node algebra (module node)
\* ------------------------------------------------------------------------

Empty == [t |-> "Empty"]

from_leaf(key, value) == [t |-> "Leaf", key |-> key, value |-> value]

from_extension(prefix, node) ==
    [t |-> "Extension", prefix |-> prefix, node |-> node]

from_branch(children, value) ==
    [t |-> "Branch", children |-> children, value |-> value]

from_hash(h) == [t |-> "Hash", hash |-> h]

empty_children == [i \in 1..16 |-> Empty]

\* BranchNode::insert(i, n): slot 16 is the branch's own value.
branch_insert(b, i, n) ==
    IF i = 16 THEN [b EXCEPT !.value = Some(n.value)]
    ELSE [b EXCEPT !.children[i + 1] = n]

\* A node that stands for a failed TrieResult<Node>.
ErrNode(e) == [t |-> "Err", err |-> e]

\* ------------------------------------------------------------------------
\* Codec (trie.rs: encode_node, encode_raw, decode_node, recover_from_db)
\* ------------------------------------------------------------------------

RECURSIVE encode_raw(_)
RECURSIVE encode_node(_)

\* The child reference a parent splices in for an encoded child:
\* stream.append(hash) or stream.append_raw(data).
child_ref(e) == IF e.kind = "Hash" THEN RlpHash(e.hash) ELSE e.raw

\* PatriciaTrie::encode_raw(n): the encoding of a node. [raw, added], where
\* added is the set of blobs that the calls of encode_node below it put into
\* the cache and, by their digests, into gen_keys. A Hash node is
\* unreachable!() in the source and has no arm here.
encode_raw(n) ==
    CASE n.t = "Empty" -> [raw |-> NULL_RLP, added |-> {}]
      [] n.t = "Leaf" ->
            [raw |-> RlpList(<<RlpData(encode_compact(n.key)), RlpData(n.value)>>),
             added |-> {}]
      [] n.t = "Branch" ->
            Let([i \in 1..16 |-> encode_node(n.children[i])], LAMBDA enc :
                [raw |-> RlpList([i \in 1..17 |->
                            IF i <= 16 THEN child_ref(enc[i])
                            ELSE IF n.value = None THEN NULL_RLP
                            ELSE RlpData(n.value[1])]),
                 added |-> UNION {enc[i].added : i \in 1..16}])
      [] n.t = "Extension" ->
            Let(encode_node(n.node), LAMBDA e :
                [raw |-> RlpList(<<RlpData(encode_compact(n.prefix)), child_ref(e)>>),
                 added |-> e.added])

\* The variant of encode_node that also returns raw an encoding of exactly
\* HASH_LEN bytes.
encode_node_inlines_32(n) ==
    IF n.t = "Hash" THEN [kind |-> "Hash", hash |-> n.hash, added |-> {}]
    ELSE Let(encode_raw(n), LAMBDA data :
             IF RlpSize(data.raw) <= HASH_LEN
             THEN [kind |-> "Node", raw |-> data.raw, added |-> data.added]
             ELSE [kind |-> "Hash", hash |-> keccak256(data.raw),
                   added |-> data.added \cup {data.raw}])

\* PatriciaTrie::encode_node(n): RawNodeOrHash. A Hash node is returned as
\* it is; an encoding shorter than HASH_LEN is returned raw; a longer one is
\* put into the cache and gen_keys and returned as its digest.
encode_node(n) ==
    IF n.t = "Hash" THEN [kind |-> "Hash", hash |-> n.hash, added |-> {}]
    ELSE Let(encode_raw(n), LAMBDA data :
             IF RlpSize(data.raw) < HASH_LEN
             THEN [kind |-> "Node", raw |-> data.raw, added |-> data.added]
             ELSE [kind |-> "Hash", hash |-> keccak256(data.raw),
                   added |-> data.added \cup {data.raw}])

IsErr(n) == n.t = "Err"

RECURSIVE decode_node(_)

\* PatriciaTrie::decode_node(data): TrieResult<Node>. Inline children are
\* decoded recursively; a 32-byte data item is a Hash node.
decode_node(r) ==
    CASE r.rlp = "data" /\ Len(r.bytes) = 0 -> Empty
      [] r.rlp = "list" /\ Len(r.items) = 2 ->
            IF r.items[1].rlp # "data" THEN ErrNode("Decoder")
            ELSE IF Len(r.items[1].bytes) = 0 \/ r.items[1].bytes[1] \div 16 > 3
                 THEN ErrNode("Panic")
            ELSE Let(from_compact(r.items[1].bytes), LAMBDA key :
                     IF is_leaf(key)
                     THEN IF r.items[2].rlp # "data" THEN ErrNode("Decoder")
                          ELSE from_leaf(key, r.items[2].bytes)
                     ELSE Let(decode_node(r.items[2]), LAMBDA n :
                              IF IsErr(n) THEN n ELSE from_extension(key, n)))
      [] r.rlp = "list" /\ Len(r.items) = 17 ->
            Let([i \in 1..16 |-> decode_node(r.items[i])], LAMBDA nodes :
                Let({i \in 1..16 : IsErr(nodes[i])}, LAMBDA bad :
                    IF bad # {} THEN nodes[CHOOSE i \in bad : \A j \in bad : i <= j]
                    ELSE IF r.items[17].rlp = "list"
                    THEN IF Len(r.items[17].items) = 0 THEN from_branch(nodes, None)
                         ELSE ErrNode("Decoder")
                    ELSE IF r.items[17].rlp # "data" THEN ErrNode("Decoder")
                    ELSE IF Len(r.items[17].bytes) = 0 THEN from_branch(nodes, None)
                    ELSE from_branch(nodes, Some(r.items[17].bytes))))
      [] r.rlp = "hash" -> from_hash(r.h)
      [] r.rlp = "data" /\ Len(r.bytes) = HASH_LEN -> from_hash([raw |-> r.bytes])
      [] OTHER -> ErrNode("InvalidData")

\* HashDB::get on the store, a function from digests to blobs.
db_get(db, key) == IF key \in DOMAIN db THEN Some(db[key]) ELSE None

\* The variant of recover_from_db that reports a digest absent from the
\* store as an error.
recover_from_db_reports_missing(db, key) ==
    IF db_get(db, key) = None THEN ErrNode("InvalidStateRoot") ELSE decode_node(db[key])

\* PatriciaTrie::recover_from_db(key): a digest absent from the store
\* resolves to Empty.
recover_from_db(db, key) ==
    IF db_get(db, key) = None THEN Empty ELSE decode_node(db[key])

\* ------------------------------------------------------------------------
\* Trie engine (trie.rs: get_at, insert_at, delete_at, degenerate,
\* get_path_at). The store is a parameter; the digests an operation adds to
\* passing_keys are part of its result (pk).
\* ------------------------------------------------------------------------

RECURSIVE get_at(_, _, _)

\* PatriciaTrie::get_at(n, partial): TrieResult<Option<Vec<u8>>>.
get_at(db, n, partial) ==
    CASE n.t = "Empty" -> Ok(None)
      [] n.t = "Leaf" ->
            IF n.key = partial THEN Ok(Some(n.value)) ELSE Ok(None)
      [] n.t = "Branch" ->
            IF Len(partial) = 0 \/ at(partial, 0) = 16 THEN Ok(n.value)
            ELSE get_at(db, n.children[at(partial, 0) + 1], offset(partial, 1))
      [] n.t = "Extension" ->
            Let(common_prefix(partial, n.prefix), LAMBDA match_len :
                IF match_len = Len(n.prefix)
                THEN get_at(db, n.node, offset(partial, match_len))
                ELSE Ok(None))
      [] n.t = "Hash" ->
            Let(recover_from_db(db, n.hash), LAMBDA r :
                IF IsErr(r) THEN Err(r.err) ELSE get_at(db, r, partial))

\* The result of a rewriting step: the replacement node and the digests put
\* into passing_keys, or the error and the digests put there before it.
MOk(n, pk) == [ok |-> TRUE, n |-> n, pk |-> pk]

MErr(e, pk) == [ok |-> FALSE, n |-> ErrNode(e), pk |-> pk]

AddPk(r, pk) == [r EXCEPT !.pk = @ \cup pk]

\* The variant of split_leaf that forgets the old leaf.
split_leaf_drops_old(n, partial, value, match_index) ==
    branch_insert(from_branch(empty_children, None),
                  at(partial, match_index),
                  from_leaf(offset(partial, match_index + 1), value))

\* The branch insert_at builds in place of a leaf whose key splits from the
\* new key at match_index (trie.rs 324-336).
split_leaf(n, partial, value, match_index) ==
    branch_insert(
        branch_insert(from_branch(empty_children, None),
                      at(n.key, match_index),
                      from_leaf(offset(n.key, match_index + 1), n.value)),
        at(partial, match_index),
        from_leaf(offset(partial, match_index + 1), value))

\* The variant of split_extension that drops the rest of the prefix.
split_extension_drops_prefix(n) ==
    branch_insert(from_branch(empty_children, None), at(n.prefix, 0), n.node)

\* The branch insert_at builds in place of an extension whose prefix parts
\* from the new key at its first nibble (trie.rs 368-381).
split_extension(n) ==
    branch_insert(from_branch(empty_children, None),
                  at(n.prefix, 0),
                  IF Len(n.prefix) = 1 THEN n.node
                  ELSE from_extension(offset(n.prefix, 1), n.node))

RECURSIVE insert_at(_, _, _, _)

\* PatriciaTrie::insert_at(n, partial, value): the replacement node.
insert_at(db, n, partial, value) ==
    CASE n.t = "Empty" -> MOk(from_leaf(partial, value), {})
      [] n.t = "Leaf" ->
            Let(common_prefix(partial, n.key), LAMBDA match_index :
                IF match_index = Len(n.key)
                THEN MOk([n EXCEPT !.value = value], {})
                ELSE IF match_index = 0
                THEN MOk(split_leaf(n, partial, value, match_index), {})
                ELSE MOk(from_extension(slice(partial, 0, match_index),
                                        split_leaf(n, partial, value, match_index)),
                         {}))
      [] n.t = "Branch" ->
            IF at(partial, 0) = 16 THEN MOk([n EXCEPT !.value = Some(value)], {})
            ELSE Let(insert_at(db, n.children[at(partial, 0) + 1],
                               offset(partial, 1), value),
                     LAMBDA r :
                        IF ~r.ok THEN r
                        ELSE MOk([n EXCEPT !.children[at(partial, 0) + 1] = r.n], r.pk))
      [] n.t = "Extension" ->
            Let(common_prefix(partial, n.prefix), LAMBDA match_index :
                IF match_index = 0
                THEN insert_at(db, split_extension(n), partial, value)
                ELSE IF match_index = Len(n.prefix)
                THEN Let(insert_at(db, n.node, offset(partial, match_index), value),
                         LAMBDA r :
                            IF ~r.ok THEN r
                            ELSE MOk(from_extension(n.prefix, r.n), r.pk))
                ELSE Let(insert_at(db,
                                   from_extension(offset(n.prefix, match_index), n.node),
                                   offset(partial, match_index), value),
                         LAMBDA r :
                            IF ~r.ok THEN r
                            ELSE MOk(from_extension(slice(n.prefix, 0, match_index), r.n),
                                     r.pk)))
      [] n.t = "Hash" ->
            Let(recover_from_db(db, n.hash), LAMBDA r :
                IF IsErr(r) THEN MErr(r.err, {n.hash})
                ELSE AddPk(insert_at(db, r, partial, value), {n.hash}))

RECURSIVE degenerate(_, _)

\* PatriciaTrie::degenerate(n): collapses a branch left with one slot and
\* merges an extension into the extension or leaf below it.
degenerate(db, n) ==
    CASE n.t = "Branch" ->
            Let({i \in 0..15 : n.children[i + 1].t # "Empty"}, LAMBDA used_indexs :
                IF used_indexs = {} /\ n.value # None
                THEN MOk(from_leaf(from_raw(<<>>, TRUE), n.value[1]), {})
                ELSE IF Cardinality(used_indexs) = 1 /\ n.value = None
                THEN Let(CHOOSE i \in used_indexs : TRUE, LAMBDA used_index :
                         degenerate(db, from_extension(from_hex(<<used_index>>),
                                                       n.children[used_index + 1])))
                ELSE MOk(n, {}))
      [] n.t = "Extension" ->
            CASE n.node.t = "Extension" ->
                    degenerate(db, from_extension(join(n.prefix, n.node.prefix),
                                                  n.node.node))
              [] n.node.t = "Leaf" ->
                    MOk(from_leaf(join(n.prefix, n.node.key), n.node.value), {})
              [] n.node.t = "Hash" ->
                    Let(recover_from_db(db, n.node.hash), LAMBDA new_node :
                        IF IsErr(new_node) THEN MErr(new_node.err, {n.node.hash})
                        ELSE AddPk(degenerate(db, from_extension(n.prefix, new_node)),
                                   {n.node.hash}))
              [] OTHER -> MOk(n, {})
      [] OTHER -> MOk(n, {})

\* The result of delete_at: the replacement node, whether a value was
\* deleted, and the digests put into passing_keys.
DOk(n, deleted, pk) == [ok |-> TRUE, n |-> n, deleted |-> deleted, pk |-> pk]

DErr(e, pk) == [ok |-> FALSE, n |-> ErrNode(e), deleted |-> FALSE, pk |-> pk]

\* The tail of delete_at (trie.rs 461-465) for a deleted value: the node is
\* degenerated before it is returned.
delete_tail(db, new_n, pk) ==
    Let(degenerate(db, new_n), LAMBDA g :
        IF ~g.ok THEN DErr(g.n.err, pk \cup g.pk) ELSE DOk(g.n, TRUE, pk \cup g.pk))

RECURSIVE delete_at(_, _, _)

\* PatriciaTrie::delete_at(n, partial): (replacement node, deleted). The
\* Leaf arm and the Branch arm at the terminator return at once, without
\* the degenerate of the tail.
delete_at(db, n, partial) ==
    CASE n.t = "Empty" -> DOk(Empty, FALSE, {})
      [] n.t = "Leaf" ->
            IF n.key = partial THEN DOk(Empty, TRUE, {}) ELSE DOk(n, FALSE, {})
      [] n.t = "Branch" ->
            IF at(partial, 0) = 16 THEN DOk([n EXCEPT !.value = None], TRUE, {})
            ELSE Let(delete_at(db, n.children[at(partial, 0) + 1], offset(partial, 1)),
                     LAMBDA r :
                        IF ~r.ok THEN r
                        ELSE IF r.deleted
                        THEN delete_tail(db,
                                 [n EXCEPT !.children[at(partial, 0) + 1] = r.n], r.pk)
                        ELSE DOk(n, FALSE, r.pk))
      [] n.t = "Extension" ->
            Let(common_prefix(partial, n.prefix), LAMBDA match_len :
                IF match_len = Len(n.prefix)
                THEN Let(delete_at(db, n.node, offset(partial, match_len)), LAMBDA r :
                         IF ~r.ok THEN r
                         ELSE IF r.deleted
                         THEN delete_tail(db, [n EXCEPT !.node = r.n], r.pk)
                         ELSE DOk(n, FALSE, r.pk))
                ELSE DOk(n, FALSE, {}))
      [] n.t = "Hash" ->
            Let(recover_from_db(db, n.hash), LAMBDA r0 :
                IF IsErr(r0) THEN DErr(r0.err, {n.hash})
                ELSE Let(delete_at(db, r0, partial), LAMBDA r :
                         IF ~r.ok THEN AddPk(r, {n.hash})
                         ELSE IF r.deleted
                         THEN delete_tail(db, r.n, r.pk \cup {n.hash})
                         ELSE DOk(r.n, FALSE, r.pk \cup {n.hash})))

RECURSIVE get_path_at(_, _, _)

\* PatriciaTrie::get_path_at(n, partial): the nodes resolved from the store
\* along the path, the deepest first.
get_path_at(db, n, partial) ==
    CASE n.t \in {"Empty", "Leaf"} -> Ok(<<>>)
      [] n.t = "Branch" ->
            IF Len(partial) = 0 \/ at(partial, 0) = 16 THEN Ok(<<>>)
            ELSE get_path_at(db, n.children[at(partial, 0) + 1], offset(partial, 1))
      [] n.t = "Extension" ->
            Let(common_prefix(partial, n.prefix), LAMBDA match_len :
                IF match_len = Len(n.prefix)
                THEN get_path_at(db, n.node, offset(partial, match_len))
                ELSE Ok(<<>>))
      [] n.t = "Hash" ->
            Let(recover_from_db(db, n.hash), LAMBDA r :
                IF IsErr(r) THEN Err(r.err)
                ELSE Let(get_path_at(db, r, partial), LAMBDA rest :
                         IF ~rest.ok THEN rest ELSE Ok(Append(rest.val, r))))

\* ------------------------------------------------------------------------
\* Public operations (trie.rs 167-266 and 574-603), as functions of the
\* fields of the trie and of the store
\* ------------------------------------------------------------------------

\* PatriciaTrie::get(key)
trie_get(db, rt, key) == get_at(db, rt, from_raw(key, TRUE))

\* PatriciaTrie::contains(key)
trie_contains(db, rt, key) ==
    Let(trie_get(db, rt, key), LAMBDA r : IF ~r.ok THEN r ELSE Ok(r.val # None))

\* PatriciaTrie::remove(key): [root, pk, ret]. The root is assigned only
\* when delete_at succeeds.
trie_remove(db, rt, key) ==
    Let(delete_at(db, rt, from_raw(key, TRUE)), LAMBDA r :
        [root |-> IF r.ok THEN r.n ELSE rt,
         pk |-> r.pk,
         ret |-> IF r.ok THEN Ok(r.deleted) ELSE Err(r.n.err)])

\* The variant of insert that stores an empty value like any other.
trie_insert_no_empty_check(db, rt, key, value) ==
    Let(insert_at(db, rt, from_raw(key, TRUE), value), LAMBDA r :
        [root |-> IF r.ok THEN r.n ELSE rt,
         pk |-> r.pk,
         ret |-> IF r.ok THEN Ok(<<>>) ELSE Err(r.n.err)])

\* PatriciaTrie::insert(key, value): [root, pk, ret]. An empty value is a
\* remove.
trie_insert(db, rt, key, value) ==
    IF value = <<>>
    THEN Let(trie_remove(db, rt, key), LAMBDA r :
             [r EXCEPT !.ret = IF r.ret.ok THEN Ok(<<>>) ELSE r.ret])
    ELSE Let(insert_at(db, rt, from_raw(key, TRUE), value), LAMBDA r :
             [root |-> IF r.ok THEN r.n ELSE rt,
              pk |-> r.pk,
              ret |-> IF r.ok THEN Ok(<<>>) ELSE Err(r.n.err)])

\* The map digest -> blob of a set of blobs.
blob_map(blobs) ==
    [d \in {keccak256(x) : x \in blobs} |-> CHOOSE x \in blobs : keccak256(x) = d]

\* HashMap::insert of every entry of m into the map base.
map_insert_all(base, m) ==
    [d \in DOMAIN base \cup DOMAIN m |-> IF d \in DOMAIN m THEN m[d] ELSE base[d]]

\* The variant of MemoryDB::remove that removes whatever light is.
db_remove_batch_ignores_light(db, light, keys) ==
    [d \in DOMAIN db \ keys |-> db[d]]

\* HashDB::remove_batch over MemoryDB::remove: a light store removes, an
\* archive store ignores the call.
db_remove_batch(db, light, keys) ==
    IF light THEN [d \in DOMAIN db \ keys |-> db[d]] ELSE db

\* The end of root() (trie.rs 598-602): the fields are reset and the root is
\* read back from the store.
root_reload(db2, rt, hash) ==
    Let(recover_from_db(db2, hash), LAMBDA n :
        [db |-> db2,
         root |-> IF IsErr(n) THEN rt ELSE n,
         root_hash |-> hash,
         cache |-> << >>,
         passing_keys |-> {},
         gen_keys |-> {},
         ret |-> IF IsErr(n) THEN Err(n.err) ELSE Ok(hash)])

\* The variant of removed_keys without the filter on gen_keys.
removed_keys_unfiltered(passing_keys, gen1) == passing_keys

\* removed_keys of root() (trie.rs 589-594): the digests passed and not
\* generated again.
removed_keys(passing_keys, gen1) == {h \in passing_keys : h \notin gen1}

\* The store update of root() (trie.rs 585-596): the cache is drained into
\* the store, then removed_keys is removed from it.
root_flush(db, light, cache1, passing_keys, gen1) ==
    db_remove_batch(map_insert_all(db, cache1), light,
                    removed_keys(passing_keys, gen1))

\* The cache root() drains (trie.rs 575-583): what it held, what encode_node
\* put there, and the root itself when its encoding is under 32 bytes.
root_cache(cache, encoded) ==
    map_insert_all(cache,
        blob_map(encoded.added \cup
                 (IF encoded.kind = "Node" THEN {encoded.raw} ELSE {})))

\* gen_keys after the encode_node of root().
root_gen_keys(gen_keys, encoded) ==
    gen_keys \cup {keccak256(x) : x \in encoded.added}

\* The variant of root() without self.passing_keys.clear().
trie_root_keeps_passing_keys(db, light, rt, cache, passing_keys, gen_keys) ==
    Let(encode_node(rt), LAMBDA encoded :
        [root_reload(
            root_flush(db, light, root_cache(cache, encoded), passing_keys,
                       root_gen_keys(gen_keys, encoded)),
            rt,
            IF encoded.kind = "Node" THEN keccak256(encoded.raw) ELSE encoded.hash)
         EXCEPT !.passing_keys = passing_keys])

\* PatriciaTrie::root(): [db, root, root_hash, cache, passing_keys, gen_keys,
\* ret].
trie_root(db, light, rt, cache, passing_keys, gen_keys) ==
    Let(encode_node(rt), LAMBDA encoded :
        root_reload(
            root_flush(db, light, root_cache(cache, encoded), passing_keys,
                       root_gen_keys(gen_keys, encoded)),
            rt,
            IF encoded.kind = "Node" THEN keccak256(encoded.raw) ELSE encoded.hash))

\* The variant of from that opens an empty trie on a digest the store lacks,
\* as recover_from_db does.
trie_from_tolerates_missing(db, h) ==
    IF db_get(db, h) = None THEN Ok(Empty)
    ELSE Let(decode_node(db[h]), LAMBDA n : IF IsErr(n) THEN Err(n.err) ELSE Ok(n))

\* The variant of from that leaves the root of the new trie Empty.
trie_from_skips_decode(db, h) ==
    IF db_get(db, h) = None THEN Err("InvalidStateRoot") ELSE Ok(Empty)

\* PatriciaTrie::from(db, root): the root node of the new trie, or an error.
trie_from(db, h) ==
    IF db_get(db, h) = None THEN Err("InvalidStateRoot")
    ELSE Let(decode_node(db[h]), LAMBDA n : IF IsErr(n) THEN Err(n.err) ELSE Ok(n))

\* The nodes of a proof, the root first (trie.rs 242-246).
proof_nodes(rt, path) ==
    Let(IF rt.t = "Empty" THEN path ELSE Append(path, rt), LAMBDA nodes :
        [i \in 1..Len(nodes) |-> nodes[Len(nodes) + 1 - i]])

\* PatriciaTrie::get_proof(key): [ret, added]. The root, then the nodes
\* resolved from the store along the path, each encoded with encode_raw;
\* added is what those encodings put into the cache and gen_keys.
get_proof(db, rt, key) ==
    Let(get_path_at(db, rt, from_raw(key, TRUE)), LAMBDA path :
        IF ~path.ok THEN [ret |-> path, added |-> {}]
        ELSE Let([i \in 1..Len(proof_nodes(rt, path.val)) |->
                     encode_raw(proof_nodes(rt, path.val)[i])],
                 LAMBDA enc :
                    [ret |-> Ok([i \in 1..Len(enc) |-> enc[i].raw]),
                     added |-> UNION {enc[i].added : i \in 1..Len(enc)}]))

\* The store verify_proof builds from a proof (trie.rs 256-263).
proof_db(rh, proof) ==
    blob_map({proof[i] : i \in {j \in 1..Len(proof) :
                 keccak256(proof[j]) = rh \/ RlpSize(proof[j]) >= HASH_LEN}})

\* The variant of verify_proof that takes the first node of the proof for
\* the root, whatever its digest.
verify_proof_trusts_first_node(rh, key, proof) ==
    IF proof = <<>> THEN Err("InvalidProof")
    ELSE Let(decode_node(proof[1]), LAMBDA n :
             IF IsErr(n) THEN Err("InvalidProof")
             ELSE Let(trie_get(blob_map({proof[i] : i \in 1..Len(proof)}), n, key),
                      LAMBDA r : IF ~r.ok THEN Err("InvalidProof") ELSE r))

\* PatriciaTrie::verify_proof(root_hash, key, proof)
verify_proof(rh, key, proof) ==
    Let(proof_db(rh, proof), LAMBDA memdb :
        Let(trie_from(memdb, rh), LAMBDA trie :
            IF ~trie.ok THEN Err("InvalidProof")
            ELSE Let(trie_get(memdb, trie.val, key), LAMBDA r :
                     IF ~r.ok THEN Err("InvalidProof") ELSE r)))

\* ------------------------------------------------------------------------
\* Iteration (trie.rs 31-165)
\* ------------------------------------------------------------------------

\* TraceStatus: Start, Doing, Child(i), End; i is 0 outside Child.
TraceStatus(s, i) == [s |-> s, i |-> i]

\* impl From<Node> for TraceNode
TraceNode(node) == [node |-> node, status |-> TraceStatus("Start", 0)]

\* The variant of advance that moves from one child to the child after the
\* next.
advance_skips_a_child(tn) ==
    [tn EXCEPT !.status =
        CASE tn.status.s = "Start" -> TraceStatus("Doing", 0)
          [] tn.status.s = "Doing" ->
                IF tn.node.t = "Branch" THEN TraceStatus("Child", 0)
                ELSE TraceStatus("End", 0)
          [] tn.status.s = "Child" /\ tn.status.i < 14 ->
                TraceStatus("Child", tn.status.i + 2)
          [] OTHER -> TraceStatus("End", 0)]

\* TraceNode::advance: the next status.
advance(tn) ==
    [tn EXCEPT !.status =
        CASE tn.status.s = "Start" -> TraceStatus("Doing", 0)
          [] tn.status.s = "Doing" ->
                IF tn.node.t = "Branch" THEN TraceStatus("Child", 0)
                ELSE TraceStatus("End", 0)
          [] tn.status.s = "Child" /\ tn.status.i < 15 ->
                TraceStatus("Child", tn.status.i + 1)
          [] OTHER -> TraceStatus("End", 0)]

\* Vec::pop and Vec::push on the frames and on the nibbles.
pop(xs) == SubSeq(xs, 1, Len(xs) - 1)

\* Nibbles::truncate(n)
truncate(p, n) == SubSeq(p, 1, n)

\* The state of a TrieIterator, and what a turn of the loop of next() does:
\* go on ("continue"), return Some(item) ("some") or return None ("none").
IterState(nibble, nodes) == [nibble |-> nibble, nodes |-> nodes]

Turn(ret, item, nibble, nodes) ==
    [ret |-> ret, item |-> item, st |-> IterState(nibble, nodes)]

\* The variant of child_nibble that leaves the nibble of the first child.
child_nibble_keeps_first(nibble, i) ==
    IF i = 0 THEN Append(nibble, 0) ELSE nibble

\* The nibbles next() holds on entering child i of a branch (trie.rs
\* 130-135).
child_nibble(nibble, i) ==
    IF i = 0 THEN Append(nibble, 0) ELSE Append(pop(nibble), i)

\* One turn of the loop of TrieIterator::next: now is the top frame before
\* advance, nodes the frames after it.
iter_turn(store, st) ==
    IF st.nodes = <<>> THEN Turn("none", None, st.nibble, st.nodes)
    ELSE Let([st.nodes EXCEPT ![Len(st.nodes)] = advance(@)], LAMBDA nodes :
         Let(st.nodes[Len(st.nodes)], LAMBDA now :
            CASE now.status.s = "End" ->
                    Turn("continue", None,
                         CASE now.node.t = "Leaf" ->
                                truncate(st.nibble, Len(st.nibble) - Len(now.node.key))
                           [] now.node.t = "Extension" ->
                                truncate(st.nibble, Len(st.nibble) - Len(now.node.prefix))
                           [] now.node.t = "Branch" -> pop(st.nibble)
                           [] OTHER -> st.nibble,
                         pop(nodes))
              [] now.status.s = "Doing" /\ now.node.t = "Extension" ->
                    Turn("continue", None, st.nibble \o now.node.prefix,
                         Append(nodes, TraceNode(now.node.node)))
              [] now.status.s = "Doing" /\ now.node.t = "Leaf" ->
                    Turn("some",
                         Some(<<encode_raw_nibbles(st.nibble \o now.node.key),
                                now.node.value>>),
                         st.nibble \o now.node.key, nodes)
              [] now.status.s = "Doing" /\ now.node.t = "Branch" ->
                    IF now.node.value = None
                    THEN Turn("continue", None, st.nibble, nodes)
                    ELSE Turn("some",
                              Some(<<encode_raw_nibbles(st.nibble), now.node.value[1]>>),
                              st.nibble, nodes)
              [] now.status.s = "Doing" /\ now.node.t = "Hash" ->
                    Let(recover_from_db(store, now.node.hash), LAMBDA n :
                        IF IsErr(n) THEN Turn("none", None, st.nibble, nodes)
                        ELSE Turn("continue", None, st.nibble,
                                  Append(pop(nodes), TraceNode(n))))
              [] now.status.s = "Child" /\ now.node.t = "Branch" ->
                    Turn("continue", None, child_nibble(st.nibble, now.status.i),
                         Append(nodes,
                                TraceNode(now.node.children[now.status.i + 1])))
              [] now.node.t = "Empty" ->
                    Turn("continue", None, st.nibble, pop(nodes))
              [] OTHER -> Turn("continue", None, st.nibble, nodes)))

RECURSIVE iter_next(_, _, _)

\* TrieIterator::next: the turns of the loop up to a return, at most fuel
\* of them; fuel is what is left, and ret is "continue" when it ran out.
iter_next(store, st, fuel) ==
    IF fuel = 0 THEN [ret |-> "continue", item |-> None, st |-> st, fuel |-> 0]
    ELSE Let(iter_turn(store, st), LAMBDA r :
             IF r.ret = "continue" THEN iter_next(store, r.st, fuel - 1)
             ELSE [ret |-> r.ret, item |-> r.item, st |-> r.st, fuel |-> fuel - 1])

RECURSIVE iter_drain(_, _, _, _)

\* The items next() returns until it returns None: Ok(items), or an error
\* when next() has not returned None within fuel turns.
iter_drain(store, st, items, fuel) ==
    Let(iter_next(store, st, fuel), LAMBDA r :
        CASE r.ret = "none" -> Ok(items)
          [] r.ret = "some" -> iter_drain(store, r.st, Append(items, r.item[1]), r.fuel)
          [] OTHER -> Err("Unfinished"))

\* PatriciaTrie::iter
trie_iter(rt) == IterState(from_raw(<<>>, FALSE), <<TraceNode(rt)>>)

\* for (k, v) in trie.iter(): the items in the order next() returns them.
iter_items(store, rt) == iter_drain(store, trie_iter(rt), <<>>, MaxIterSteps)

\* ------------------------------------------------------------------------
\* The inputs of the model
\* ------------------------------------------------------------------------

\* 0x01 is a proper prefix of 0x0101 and 0x0111, whose paths part at the
\* third nibble and end alike; 0x11 parts from the three at the first nibble.
Keys == {<<1>>, <<1, 1>>, <<1, 17>>, <<17>>}

\* A one-byte value, whose leaf is inlined in its parent.
ShortValue == <<1>>

\* A 32-byte value, whose leaf is stored under its digest.
LongValue == <<7, 7, 7, 7, 7, 7, 7, 7, 7, 7, 7, 7, 7, 7, 7, 7,
               7, 7, 7, 7, 7, 7, 7, 7, 7, 7, 7, 7, 7, 7, 7, 7>>

Values == {ShortValue, LongValue}

\* ------------------------------------------------------------------------
\* State
\* ------------------------------------------------------------------------

VARIABLES
    root,           \* PatriciaTrie.root
    root_hash,      \* PatriciaTrie.root_hash
    cache,          \* PatriciaTrie.cache: digest -> blob
    passing_keys,   \* PatriciaTrie.passing_keys
    gen_keys,       \* PatriciaTrie.gen_keys
    db,             \* MemoryDB.storage: digest -> blob
    light,          \* MemoryDB.light
    op,             \* the last call: its name, arguments and result
    nops,           \* the number of mutating calls so far
    kv,             \* the map the calls so far describe: key -> Option
    ckv,            \* that map as of the last root()
    live,           \* the keys whose last call on this instance is an insert
    phase,          \* how the run so far is shaped (see Insert, Remove, Root)
    clean,          \* no insert or remove since the last root() or from()
    commits,        \* on an archive store: the digests root() returned, each
                    \* with the map current at that root()
    iterator        \* the TrieIterator borrowing the trie, if one is open: its
                    \* nibble and nodes, and what the last turn of next() did

vars == <<root, root_hash, cache, passing_keys, gen_keys, db, light,
          op, nops, kv, ckv, live, phase, clean, commits, iterator>>

trie_vars == <<root, root_hash, cache, passing_keys, gen_keys>>

ghost_vars == <<kv, ckv, live, phase, clean, commits>>

EmptyMap == [k \in Keys |-> None]

\* No TrieIterator is open.
NoIter == [open |-> FALSE, st |-> IterState(<<>>, <<>>), ret |-> "none", item |-> None]

\* The record of a call; had tells whether get(key) was Some before it, rep
\* whether it is a remove that follows at once a remove of the same key, then
\* present, and phase is the phase before it. same tells whether it is an
\* insert, on a trie with no insert or remove since the last root() or
\* from(), of the value get(key) returns, and resame whether it is a root()
\* that follows such an insert at once.
Call(name, key, value, ret, had) ==
    [name |-> name, key |-> key, value |-> value, ret |-> ret,
     had |-> had, phase |-> phase,
     rep |-> name = "remove" /\ op.name = "remove" /\ op.key = key /\ op.had,
     same |-> name = "insert" /\ clean /\ value # <<>>
                 /\ trie_get(db, root, key) = Ok(Some(value)),
     resame |-> name = "root" /\ op.name = "insert" /\ op.same]

\* PatriciaTrie::new over MemoryDB::new(true).
Init ==
    /\ root = Empty
    /\ root_hash = keccak256(NULL_RLP)
    /\ cache = << >>
    /\ passing_keys = {}
    /\ gen_keys = {}
    /\ db = << >>
    /\ light = TRUE
    /\ op = [name |-> "new", key |-> <<>>, value |-> <<>>, ret |-> Ok(<<>>),
             had |-> FALSE, phase |-> "I", rep |-> FALSE,
             same |-> FALSE, resame |-> FALSE]
    /\ nops = 0
    /\ kv = EmptyMap
    /\ ckv = EmptyMap
    /\ live = {}
    /\ phase = "I"
    /\ clean = FALSE
    /\ commits = {}
    /\ iterator = NoIter

\* PatriciaTrie::new over MemoryDB::new(false), an archive store.
InitArchive ==
    /\ root = Empty
    /\ root_hash = keccak256(NULL_RLP)
    /\ cache = << >>
    /\ passing_keys = {}
    /\ gen_keys = {}
    /\ db = << >>
    /\ light = FALSE
    /\ op = [name |-> "new", key |-> <<>>, value |-> <<>>, ret |-> Ok(<<>>),
             had |-> FALSE, phase |-> "I", rep |-> FALSE,
             same |-> FALSE, resame |-> FALSE]
    /\ nops = 0
    /\ kv = EmptyMap
    /\ ckv = EmptyMap
    /\ live = {}
    /\ phase = "I"
    /\ clean = FALSE
    /\ commits = {}
    /\ iterator = NoIter

\* get(key) is Some in the current state.
Present(k) == Let(trie_get(db, root, k), LAMBDA r : r.ok /\ r.val # None)

\* insert(key, value), value possibly empty. The phase stays "I" while the
\* run consists of inserts of non-empty values into a new trie.
Insert(k, v) ==
    /\ nops < MaxOps
    /\ \E r \in {trie_insert(db, root, k, v)} :
          /\ root' = r.root
          /\ passing_keys' = passing_keys \cup r.pk
          /\ op' = Call("insert", k, v, r.ret, Present(k))
    /\ nops' = nops + 1
    /\ kv' = [kv EXCEPT ![k] = IF v = <<>> THEN None ELSE Some(v)]
    /\ live' = IF v = <<>> THEN live \ {k} ELSE live \cup {k}
    /\ phase' = IF phase = "I" /\ v # <<>> THEN "I" ELSE "X"
    /\ clean' = FALSE
    /\ UNCHANGED <<root_hash, cache, gen_keys, db, light, ckv, commits, iterator>>

\* remove(key). The phase is "IRD" while the run consists of inserts, one
\* root() and removes of keys the map holds.
Remove(k) ==
    /\ nops < MaxOps
    /\ \E r \in {trie_remove(db, root, k)} :
          /\ root' = r.root
          /\ passing_keys' = passing_keys \cup r.pk
          /\ op' = Call("remove", k, <<>>, r.ret, Present(k))
    /\ nops' = nops + 1
    /\ kv' = [kv EXCEPT ![k] = None]
    /\ live' = live \ {k}
    /\ phase' = IF phase \in {"IR", "IRD"} /\ kv[k] # None THEN "IRD" ELSE "X"
    /\ clean' = FALSE
    /\ UNCHANGED <<root_hash, cache, gen_keys, db, light, ckv, commits, iterator>>

\* root(). The phase is "IR" after the first root() of a run of inserts.
Root ==
    /\ nops < MaxOps
    /\ \E r \in {trie_root(db, light, root, cache, passing_keys, gen_keys)} :
          /\ db' = r.db
          /\ root' = r.root
          /\ root_hash' = r.root_hash
          /\ cache' = r.cache
          /\ passing_keys' = r.passing_keys
          /\ gen_keys' = r.gen_keys
          /\ op' = Call("root", <<>>, <<>>, r.ret, FALSE)
          /\ commits' = IF light \/ ~r.ret.ok THEN commits
                         ELSE commits \cup {[digest |-> r.ret.val, map |-> kv]}
    /\ nops' = nops + 1
    /\ ckv' = kv
    /\ phase' = IF phase = "I" /\ kv # EmptyMap THEN "IR" ELSE "X"
    /\ clean' = TRUE
    /\ UNCHANGED <<light, kv, live, iterator>>

\* The trie is dropped and opened again with from(db, root_hash), the digest
\* of its last root(). A digest absent from the store gives InvalidStateRoot
\* and no trie.
From ==
    /\ nops < MaxOps
    /\ \E r \in {trie_from(db, root_hash)} :
          IF r.ok
          THEN /\ root' = r.val
               /\ cache' = << >>
               /\ passing_keys' = {}
               /\ gen_keys' = {}
               /\ kv' = ckv
               /\ live' = {}
               /\ clean' = TRUE
               /\ phase' = "X"
               /\ op' = Call("from", <<>>, <<>>, Ok(root_hash), FALSE)
          ELSE /\ op' = Call("from", <<>>, <<>>, r, FALSE)
               /\ UNCHANGED <<root, cache, passing_keys, gen_keys, kv, live,
                              clean, phase>>
    /\ nops' = nops + 1
    /\ UNCHANGED <<root_hash, db, light, ckv, commits, iterator>>

\* get(key)
Get(k) ==
    /\ op' = Call("get", k, <<>>, trie_get(db, root, k), FALSE)
    /\ UNCHANGED <<trie_vars, db, light, nops, ghost_vars, iterator>>

\* contains(key)
Contains(k) ==
    /\ op' = Call("contains", k, <<>>, trie_contains(db, root, k), FALSE)
    /\ UNCHANGED <<trie_vars, db, light, nops, ghost_vars, iterator>>

\* The variant of get_proof that drains the cache into the store.
GetProofFlushes(k) ==
    /\ \E r \in {get_proof(db, root, k)} :
          /\ op' = Call("get_proof", k, <<>>, r.ret, FALSE)
          /\ db' = map_insert_all(db, map_insert_all(cache, blob_map(r.added)))
          /\ cache' = << >>
          /\ gen_keys' = gen_keys \cup {keccak256(x) : x \in r.added}
    /\ UNCHANGED <<root, root_hash, passing_keys, light, nops, ghost_vars, iterator>>

\* get_proof(key): the encodings it makes go through encode_node, which
\* writes the cache and gen_keys.
GetProof(k) ==
    /\ \E r \in {get_proof(db, root, k)} :
          /\ op' = Call("get_proof", k, <<>>, r.ret, FALSE)
          /\ cache' = map_insert_all(cache, blob_map(r.added))
          /\ gen_keys' = gen_keys \cup {keccak256(x) : x \in r.added}
    /\ UNCHANGED <<root, root_hash, passing_keys, db, light, nops, ghost_vars, iterator>>

\* verify_proof(root_hash, key, proof) on the proof get_proof just returned.
VerifyProof ==
    /\ op.name = "get_proof"
    /\ op.ret.ok
    /\ op' = Call("verify_proof", op.key, <<>>,
                  verify_proof(root_hash, op.key, op.ret.val), FALSE)
    /\ UNCHANGED <<trie_vars, db, light, nops, ghost_vars, iterator>>

\* A copy of an encoded node with its last item overwritten.
mutated(b) ==
    IF b.rlp = "list"
    THEN RlpList([b.items EXCEPT ![Len(b.items)] = RlpData(<<9>>)])
    ELSE RlpData(<<9>>)

\* The byte strings put in place of the node b of a proof: a mutated copy,
\* the NULL encoding and the nodes of the store, b itself left out.
alternatives(store, b) ==
    ({mutated(b), NULL_RLP} \cup {store[d] : d \in DOMAIN store}) \ {b}

\* The proofs made of proof by cutting its end off.
truncations(proof) == {SubSeq(proof, 1, n) : n \in 0..(Len(proof) - 1)}

\* The proofs made of proof by replacing one node by different bytes.
replacements(store, proof) ==
    UNION {{[proof EXCEPT ![i] = b] : b \in alternatives(store, proof[i])} :
              i \in 1..Len(proof)}

\* verify_proof(root_hash, key, p) on a proof p made by a third party from
\* the proof get_proof just returned.
VerifyWith(p) ==
    /\ op.name = "get_proof"
    /\ op.ret.ok
    /\ op' = Call("verify_with", op.key, p, verify_proof(root_hash, op.key, p), FALSE)
    /\ UNCHANGED <<trie_vars, db, light, nops, ghost_vars, iterator>>

\* A blob that is no node encoding: a data item of one byte.
foreign_blob == RlpData(<<9>>)

\* The digest of a blob no store of a run holds.
absent_digest == keccak256(RlpData(<<8>>))

\* PatriciaTrie::from(store, d) as a whole: the root and the root_hash of the
\* new trie, or the error.
from_store(store, d) ==
    Let(trie_from(store, d), LAMBDA r :
        IF r.ok THEN Ok([root |-> r.val, root_hash |-> d]) ELSE r)

\* from(store, d) on a copy of the store of the trie, to which the caller
\* has added the blobs extra with MemoryDB::insert, each under its digest.
\* The trie it returns is dropped. The record of the call holds the digest
\* and the added blobs.
FromAt(extra, d) ==
    /\ op' = [name |-> "from_at", key |-> <<>>, value |-> <<>>,
              ret |-> from_store(map_insert_all(db, blob_map(extra)), d),
              had |-> FALSE, phase |-> phase, rep |-> FALSE,
              digest |-> d, extra |-> extra]
    /\ UNCHANGED <<trie_vars, db, light, nops, ghost_vars, iterator>>

\* iter() and next() until it returns None; the trie is borrowed for as
\* long as the iterator lives, so no other call comes in between.
Iter ==
    /\ op' = Call("iter", <<>>, <<>>, iter_items(db, root), FALSE)
    /\ UNCHANGED <<trie_vars, db, light, nops, ghost_vars, iterator>>

\* The calls of a trie and its reads.
Next ==
    \/ \E k \in Keys, v \in Values \cup {<<>>} : Insert(k, v)
    \/ \E k \in Keys : Remove(k)
    \/ Root
    \/ From
    \/ \E k \in Keys : Get(k)
    \/ \E k \in Keys : Contains(k)

Spec == Init /\ [][Next]_vars

\* The calls of a trie and its proofs, over runs of at most MaxProofOps
\* mutating calls.
NextProof ==
    \/ nops < MaxProofOps /\ \E k \in Keys, v \in Values \cup {<<>>} : Insert(k, v)
    \/ nops < MaxProofOps /\ \E k \in Keys : Remove(k)
    \/ nops < MaxProofOps /\ Root
    \/ nops < MaxProofOps /\ From
    \/ \E k \in Keys : GetProof(k)
    \/ VerifyProof

SpecProof == Init /\ [][NextProof]_vars

\* The calls of a trie and its iteration.
NextIter ==
    \/ \E k \in Keys, v \in Values \cup {<<>>} : Insert(k, v)
    \/ \E k \in Keys : Remove(k)
    \/ Root
    \/ From
    \/ Iter

SpecIter == Init /\ [][NextIter]_vars

\* Every call of a trie, over runs of at most MaxAllOps mutating calls.
NextAll ==
    \/ nops < MaxAllOps /\ \E k \in Keys, v \in Values \cup {<<>>} : Insert(k, v)
    \/ nops < MaxAllOps /\ \E k \in Keys : Remove(k)
    \/ nops < MaxAllOps /\ Root
    \/ nops < MaxAllOps /\ From
    \/ \E k \in Keys : Get(k)
    \/ \E k \in Keys : Contains(k)
    \/ \E k \in Keys : GetProof(k)
    \/ VerifyProof
    \/ Iter
    \/ \E extra \in {{}, {foreign_blob}} :
          \E d \in DOMAIN db \cup {keccak256(b) : b \in extra}
                    \cup {root_hash, absent_digest} : FromAt(extra, d)

SpecAll == Init /\ [][NextAll]_vars

\* The pairs iteration yields on the trie from(store, d) opens, or an error.
reopened_pairs(store, d) ==
    Let(trie_from(store, d), LAMBDA r :
        IF ~r.ok THEN r
        ELSE Let(iter_items(store, r.val), LAMBDA it :
                 IF ~it.ok THEN it
                 ELSE Ok([pairs |-> {it.val[i] : i \in 1..Len(it.val)},
                          count |-> Len(it.val)])))

\* from(store, c.digest) on a digest an earlier root() returned, and the
\* iteration of the trie it opens; that trie is dropped.
Reopen(c) ==
    /\ op' = [name |-> "reopen", key |-> <<>>, value |-> <<>>,
              ret |-> reopened_pairs(db, c.digest),
              had |-> FALSE, phase |-> phase, rep |-> FALSE, commit |-> c]
    /\ UNCHANGED <<trie_vars, db, light, nops, ghost_vars, iterator>>

\* The trie is dropped, the owner of the light store removes the blob of
\* the digest d with MemoryDB::remove, and the trie is opened again with
\* from(db, root_hash).
Prune(d) ==
    /\ nops < MaxOps
    /\ light
    /\ d \in DOMAIN db \ {root_hash}
    /\ \E r \in {trie_from(db_remove_batch(db, light, {d}), root_hash)} :
          /\ r.ok
          /\ root' = r.val
          /\ op' = Call("prune", <<>>, <<>>, Ok(root_hash), FALSE)
    /\ db' = db_remove_batch(db, light, {d})
    /\ cache' = << >>
    /\ passing_keys' = {}
    /\ gen_keys' = {}
    /\ kv' = ckv
    /\ live' = {}
    /\ clean' = TRUE
    /\ phase' = "X"
    /\ nops' = nops + 1
    /\ UNCHANGED <<root_hash, light, ckv, commits, iterator>>

\* The calls of a trie, and get_proof on a trie with no insert or remove
\* since the last root() or from().
NextCommitted ==
    \/ \E k \in Keys, v \in Values \cup {<<>>} : Insert(k, v)
    \/ \E k \in Keys : Remove(k)
    \/ Root
    \/ From
    \/ clean /\ \E k \in Keys : GetProof(k)

SpecCommitted == Init /\ [][NextCommitted]_vars

\* A value of len bytes.
sized(len) == [i \in 1..len |-> 7]

\* The values whose leaves encode to lengths around HASH_LEN.
ThresholdValues == {ShortValue} \cup {sized(len) : len \in MinValueLen..MaxValueLen}

\* Inserts of values of graded lengths, and root().
NextThreshold ==
    \/ nops < MaxThresholdOps /\ \E k \in Keys, v \in ThresholdValues : Insert(k, v)
    \/ nops < MaxThresholdOps /\ Root

SpecThreshold == Init /\ [][NextThreshold]_vars

\* iter(): a TrieIterator over the trie, its one frame the root at Start.
IterOpen ==
    /\ ~iterator.open
    /\ iterator' = [open |-> TRUE, st |-> trie_iter(root), ret |-> "continue", item |-> None]
    /\ UNCHANGED <<trie_vars, db, light, op, nops, ghost_vars>>

\* One turn of the loop of next() on the open iterator.
IterTurn ==
    /\ iterator.open
    /\ \E r \in {iter_turn(db, iterator.st)} :
          iterator' = [open |-> TRUE, st |-> r.st, ret |-> r.ret, item |-> r.item]
    /\ UNCHANGED <<trie_vars, db, light, op, nops, ghost_vars>>

\* The iterator is dropped and the borrow of the trie ends.
IterDrop ==
    /\ iterator.open
    /\ iterator' = NoIter
    /\ UNCHANGED <<trie_vars, db, light, op, nops, ghost_vars>>

\* The calls of a trie and the turns of an iterator over it; while the
\* iterator lives the trie is borrowed and takes no mutating call.
NextFrames ==
    \/ nops < MaxFrameOps /\ ~iterator.open /\ \E k \in Keys, v \in Values : Insert(k, v)
    \/ nops < MaxFrameOps /\ ~iterator.open /\ \E k \in Keys : Remove(k)
    \/ nops < MaxFrameOps /\ ~iterator.open /\ Root
    \/ IterOpen
    \/ IterTurn
    \/ IterDrop

SpecFrames == Init /\ [][NextFrames]_vars

\* The calls of a trie over a store whose owner removes blobs.
NextPruned ==
    \/ \E k \in Keys, v \in Values \cup {<<>>} : Insert(k, v)
    \/ \E k \in Keys : Remove(k)
    \/ Root
    \/ \E d \in DOMAIN db : Prune(d)
    \/ \E k \in Keys : Get(k)
    \/ \E k \in Keys : Contains(k)

SpecPruned == Init /\ [][NextPruned]_vars

\* The calls of a trie over an archive store and the reopening of the
\* digests its root() calls returned.
NextArchive ==
    \/ nops < MaxArchiveOps /\ \E k \in Keys, v \in Values \cup {<<>>} : Insert(k, v)
    \/ nops < MaxArchiveOps /\ \E k \in Keys : Remove(k)
    \/ nops < MaxArchiveOps /\ Root
    \/ nops < MaxArchiveOps /\ From
    \/ \E c \in commits : Reopen(c)

SpecArchive == InitArchive /\ [][NextArchive]_vars

\* The calls of a trie and the proofs a third party makes of its proofs,
\* over runs of at most MaxTamperOps mutating calls.
NextTamper ==
    \/ nops < MaxTamperOps /\ \E k \in Keys, v \in Values \cup {<<>>} : Insert(k, v)
    \/ nops < MaxTamperOps /\ \E k \in Keys : Remove(k)
    \/ nops < MaxTamperOps /\ Root
    \/ nops < MaxTamperOps /\ From
    \/ \E k \in Keys : GetProof(k)
    \/ op.name = "get_proof" /\ op.ret.ok
          /\ \E p \in truncations(op.ret.val) \cup replacements(db, op.ret.val) :
                VerifyWith(p)

SpecTamper == Init /\ [][NextTamper]_vars

\* ------------------------------------------------------------------------
\* Properties
\* ------------------------------------------------------------------------

\* The keys in the order a reference trie receives them.
KeySeq == <<<<1>>, <<1, 1>>, <<1, 17>>, <<17>>>>

RECURSIVE insert_all(_, _, _)

\* The root node of a new trie after insert(KeySeq[j], m[KeySeq[j]]) for
\* every j >= i whose key the map m holds, in the order of KeySeq.
insert_all(rt, m, i) ==
    IF i > Len(KeySeq) THEN rt
    ELSE insert_all(IF m[KeySeq[i]] = None THEN rt
                    ELSE trie_insert(<< >>, rt, KeySeq[i], m[KeySeq[i]][1]).root,
                    m, i + 1)

\* What root() returns on a new trie over an empty store after the inserts
\* of insert_all.
fresh_root(m) ==
    trie_root(<< >>, TRUE, insert_all(Empty, m, 1), << >>, {}, {}).ret

\* C1. Get-after-insert: on a trie made by new(), after inserts of non-empty
\* values only, get(k) of a key that was inserted returns Some of the value
\* of the last insert of k.
C1_GetAfterInsert ==
    (op.name = "get" /\ phase = "I" /\ kv[op.key] # None)
        => op.ret = Ok(kv[op.key])

\* A get of 0x01, a proper prefix of the stored keys 0x0101 and 0x0111,
\* after five inserts that left all four keys stored, one of them overwritten.
C1_Witness ==
    /\ op.name = "get" /\ phase = "I" /\ nops = MaxOps
    /\ op.key = <<1>>
    /\ kv[<<1>>] = Some(LongValue)
    /\ kv[<<1, 1>>] # None /\ kv[<<1, 17>>] # None /\ kv[<<17>>] # None
    /\ op.ret = Ok(Some(LongValue))

\* C2. Call-order visibility across commits: on one trie instance over a
\* light store, get(k) returns Some(v) from the end of insert(k, v), v not
\* empty, until the next insert or remove of k, whatever root() calls and
\* calls on other keys come in between.
C2_CallOrderVisibility ==
    (op.name = "get" /\ light /\ op.key \in live) => op.ret = Ok(kv[op.key])

\* C3. Root determinism: root() returns the digest a new trie holding the
\* same key -> value map returns, whatever sequence of insert, remove,
\* root() and from() led to the map.
C3_RootDeterminism ==
    op.name = "root" => op.ret = fresh_root(kv)

\* C4. Insertion-order independence: after inserts of non-empty values into
\* a new trie, in any order and with any overwritten earlier values, root()
\* returns the digest the inserts of the final pairs in the order of KeySeq
\* give.
C4_InsertionOrderIndependence ==
    (op.name = "root" /\ op.phase = "I") => op.ret = fresh_root(kv)

\* root() after four inserts that left three keys stored, one of them
\* overwritten.
C4_Witness ==
    /\ op.name = "root" /\ op.phase = "I" /\ nops = MaxOps
    /\ kv[<<1>>] # None /\ kv[<<17>>] = None
    /\ kv[<<1, 1>>] = Some(ShortValue) /\ kv[<<1, 17>>] = Some(LongValue)
    /\ op.ret = fresh_root(kv)

\* C5. remove(k) returns true if and only if get(k) was Some immediately
\* before the call, also when the path of k ends at a branch without value.
C5_RemoveReturnsPresence ==
    op.name = "remove" => op.ret = Ok(op.had)

\* C6. Remove-idempotence: remove(k) of a present key, also one that is a
\* proper prefix of another stored key, returns true; a second remove(k)
\* right after it returns false; a get(k) right after that returns None.
C6_RemoveIdempotence ==
    [][/\ (op'.name = "remove" /\ op'.had) => op'.ret = Ok(TRUE)
       /\ (op'.name = "remove" /\ op'.rep) => op'.ret = Ok(FALSE)
       /\ (op.name = "remove" /\ op.rep /\ op'.name = "get" /\ op'.key = op.key)
            => op'.ret = Ok(None)]_vars

\* C7. Empty value is remove: insert(k, []) leaves the trie as remove(k)
\* leaves it from the same state, stores no empty value under k, and a
\* contains(k) right after it returns false, k present before or not.
C7_EmptyValueIsRemove ==
    [][/\ (op'.name = "insert" /\ op'.value = <<>>) =>
            /\ op'.ret = Ok(<<>>)
            /\ root' = trie_remove(db, root, op'.key).root
            /\ passing_keys' = passing_keys \cup trie_remove(db, root, op'.key).pk
            /\ UNCHANGED <<root_hash, cache, gen_keys, db, iterator>>
            /\ trie_get(db', root', op'.key) = Ok(None)
       /\ (op.name = "insert" /\ op.value = <<>> /\ op'.name = "contains"
              /\ op'.key = op.key)
            => op'.ret = Ok(FALSE)]_vars

\* contains(0x01) returns false right after insert(0x01, []) on a trie that
\* held 0x01 as the value of a branch.
C7_Witness ==
    /\ op.name = "insert" /\ op.value = <<>> /\ op.key = <<1>> /\ op.had
    /\ kv[<<1, 1>>] # None
    /\ trie_contains(db, root, <<1>>) = Ok(FALSE)

RECURSIVE dangling(_, _)

\* Some digest reachable from the node n is absent from the store.
dangling(store, n) ==
    CASE n.t = "Branch" -> \E i \in 1..16 : dangling(store, n.children[i])
      [] n.t = "Extension" -> dangling(store, n.node)
      [] n.t = "Hash" -> \/ db_get(store, n.hash) = None
                         \/ dangling(store, recover_from_db(store, n.hash))
      [] OTHER -> FALSE

\* C8. Pruning safety: after root() on a light store every digest reachable
\* from the new root is in the store, whatever inserts and removes came
\* before.
C8_PruningSafety ==
    (op.name = "root" /\ light /\ op.ret.ok) => ~dangling(db, root)

\* C9. Stale-key pruning: on a light store that starts empty, after inserts
\* of a non-empty set of keys, root(), the remove of every one of those keys
\* and root() again, the store holds keccak(NULL) -> NULL and nothing else.
C9_StaleKeyPruning ==
    (op.name = "root" /\ light /\ op.phase = "IRD" /\ kv = EmptyMap)
        => db = (keccak256(NULL_RLP) :> NULL_RLP)

\* C10. Proof soundness: on a committed trie, the empty one included,
\* verify_proof(root(), k, get_proof(k)) returns Ok with the Option get(k)
\* returns, k present or absent.
C10_ProofSoundness ==
    (op.name = "verify_proof" /\ clean) => op.ret = trie_get(db, root, op.key)

\* The proof get_proof(key) returns in the current state.
genuine_proof(key) == get_proof(db, root, key).ret.val

\* C11. A successful None is a valid exclusion proof: on a committed trie,
\* if verify_proof(r, k, proof) returns Ok(None) for a list of byte strings
\* proof, then get(k) is None.
C11_NoneIsExclusion ==
    (op.name = "verify_with" /\ clean /\ op.ret = Ok(None))
        => trie_get(db, root, op.key) = Ok(None)

\* C12. Proof exclusion: on a committed trie with get(k) == None,
\* get_proof(k) returns at least one node and verify_proof(r, k,
\* get_proof(k)) returns Ok(None).
C12_ProofExclusion ==
    (op.name = "verify_proof" /\ clean /\ trie_get(db, root, op.key) = Ok(None))
        => (Len(genuine_proof(op.key)) >= 1 /\ op.ret = Ok(None))

\* p differs from the proof g at one position.
one_replaced(p, g) ==
    Len(p) = Len(g) /\ Cardinality({i \in 1..Len(g) : p[i] # g[i]}) = 1

\* C13. Proof tamper-resistance: a proof of get_proof(k) on a committed trie
\* with one node replaced by different bytes makes verify_proof return
\* Ok(None) or InvalidProof, never Some(value).
C13_TamperResistance ==
    (op.name = "verify_with" /\ clean /\ one_replaced(op.value, genuine_proof(op.key)))
        => op.ret \in {Ok(None), Err("InvalidProof")}

\* The proof of the stored key 0x0101, two nodes long, verified with its
\* second node replaced by a mutated copy: Ok(None).
C13_Witness ==
    /\ op.name = "verify_with" /\ clean /\ op.key = <<1, 1>>
    /\ trie_get(db, root, <<1, 1>>) = Ok(Some(LongValue))
    /\ Len(genuine_proof(<<1, 1>>)) >= 2
    /\ one_replaced(op.value, genuine_proof(<<1, 1>>))
    /\ op.value[2] = mutated(genuine_proof(<<1, 1>>)[2])
    /\ op.ret = Ok(None)

\* The pairs of the map the calls so far describe.
map_pairs == {<<k, kv[k][1]>> : k \in {x \in Keys : kv[x] # None}}

\* C19. Iteration is complete and finite: after any inserts, removes,
\* root() and from() calls, iter() ends after finitely many next() calls and
\* yields the pairs of the current map, each key once, and no other key.
C19_IterationComplete ==
    op.name = "iter" =>
        /\ op.ret.ok
        /\ {op.ret.val[i] : i \in 1..Len(op.ret.val)} = map_pairs
        /\ Len(op.ret.val) = Cardinality(map_pairs)

RECURSIVE lex_less(_, _)

\* a is before b in the lexicographic order of byte strings.
lex_less(a, b) ==
    IF a = <<>> THEN b # <<>>
    ELSE IF b = <<>> THEN FALSE
    ELSE IF a[1] # b[1] THEN a[1] < b[1]
    ELSE lex_less(Tail(a), Tail(b))

\* C20. Iteration order: iter() yields its entries in strictly increasing
\* lexicographic order of the raw keys, a key that is a proper prefix of
\* others (a branch value) before every key below it.
C20_IterationOrder ==
    (op.name = "iter" /\ op.ret.ok) =>
        \A i, j \in 1..Len(op.ret.val) :
            i < j => lex_less(op.ret.val[i][1], op.ret.val[j][1])

\* iter() on a trie that holds the four keys yields 0x01, the value of a
\* branch, then 0x0101 and 0x0111 below it, then 0x11.
C20_Witness ==
    /\ op.name = "iter" /\ op.ret.ok
    /\ Len(op.ret.val) = 4
    /\ op.ret.val[1][1] = <<1>> /\ op.ret.val[2][1] = <<1, 1>>
    /\ op.ret.val[3][1] = <<1, 17>> /\ op.ret.val[4][1] = <<17>>

\* C14. Round-trip via root: after r = root(), whatever inserts and removes
\* came before, from(store, r) succeeds; iterating the new trie yields what
\* iterating the old one yields, get(k) agrees on every key, and root() of
\* the new trie, not mutated, returns r.
C14_RoundTripViaRoot ==
    [][(op'.name = "from" /\ clean) =>
          /\ op'.ret = Ok(root_hash)
          /\ iter_items(db', root') = iter_items(db, root)
          /\ \A k \in Keys : trie_get(db', root', k) = trie_get(db, root, k)
          /\ trie_root(db', light', root', cache', passing_keys', gen_keys').ret
                = Ok(root_hash)]_vars

\* from() right after the root() that followed inserts, on a trie whose
\* iteration yields the three keys under 0x01.
C14_Witness ==
    /\ op.name = "from" /\ op.phase = "IR" /\ op.ret = Ok(root_hash)
    /\ iter_items(db, root) =
          Ok(<< <<(<<1>>), ShortValue>>, <<(<<1, 1>>), LongValue>>,
                <<(<<1, 17>>), LongValue>> >>)

\* The digests root() calls db.insert with in the current state.
store_inserts == DOMAIN root_cache(cache, encode_node(root))

\* The digests root() calls db.remove with in the current state.
store_removes ==
    removed_keys(passing_keys, root_gen_keys(gen_keys, encode_node(root)))

\* C15. root() is idempotent: a root() with no insert or remove since the
\* last one returns the same digest and performs no insert and no remove on
\* the store.
C15_RootIdempotent ==
    [][(op'.name = "root" /\ clean) =>
          /\ op'.ret = Ok(root_hash)
          /\ store_inserts = {}
          /\ store_removes = {}]_vars

\* C16. Only root() writes to the store: get, contains, insert, remove,
\* get_proof and iteration leave the digest -> bytes map of the store as it
\* was, and the store changes only in a root() step.
C16_OnlyRootWrites ==
    [][/\ op'.name \in {"get", "contains", "insert", "remove", "get_proof", "iter"}
            => db' = db
       /\ db' # db => op'.name = "root"]_vars

\* get_proof on a trie reopened or committed before and changed since: its
\* encodings are in the cache and not in the store.
C16_Witness ==
    /\ op.name = "get_proof" /\ ~clean /\ db # << >>
    /\ \E d \in DOMAIN cache : d \notin DOMAIN db

\* The store from(store, d) of the step to the state with call c ran on.
from_at_store(store, c) == map_insert_all(store, blob_map(c.extra))

\* C17. from(store, d) with a digest d absent from the store returns the
\* InvalidStateRoot error, constructs no trie and leaves the store
\* unchanged; with d present it succeeds and the root_hash of the new trie
\* is d.
C17_FromByDigest ==
    [][/\ op'.name = "from_at" =>
            /\ db' = db
            /\ IF op'.digest \notin DOMAIN from_at_store(db, op')
               THEN op'.ret = Err("InvalidStateRoot")
               ELSE op'.ret.ok /\ op'.ret.val.root_hash = op'.digest
       /\ op'.name = "from" =>
            /\ db' = db
            /\ IF root_hash \notin DOMAIN db
               THEN op'.ret = Err("InvalidStateRoot") /\ root' = root
               ELSE op'.ret = Ok(root_hash) /\ root_hash' = root_hash]_vars

\* C17, amended. from(store, d) with d absent from the store returns the
\* InvalidStateRoot error, constructs no trie and leaves the store
\* unchanged; with d present and the blob under d one that root() of a trie
\* wrote, it succeeds and the root_hash of the new trie is d; with d present
\* and the blob under d no node encoding, it returns the InvalidData error,
\* constructs no trie and leaves the store unchanged.
C17_FromByDigestOfNode ==
    [][/\ op'.name = "from_at" =>
            /\ db' = db
            /\ IF op'.digest \notin DOMAIN from_at_store(db, op')
               THEN op'.ret = Err("InvalidStateRoot")
               ELSE IF op'.digest \in DOMAIN db
               THEN op'.ret.ok /\ op'.ret.val.root_hash = op'.digest
               ELSE op'.ret = Err("InvalidData")
       /\ op'.name = "from" =>
            /\ db' = db
            /\ IF root_hash \notin DOMAIN db
               THEN op'.ret = Err("InvalidStateRoot") /\ root' = root
               ELSE op'.ret = Ok(root_hash) /\ root_hash' = root_hash]_vars

\* from on a store that holds nodes and not the digest asked for.
C17_Witness ==
    /\ op.name = "from_at" /\ db # << >>
    /\ op.digest \notin DOMAIN from_at_store(db, op)
    /\ op.ret = Err("InvalidStateRoot")

\* C18. Empty trie digest: a trie created by new(store) has root Empty and
\* root_hash keccak(NULL); root() called while the trie holds no key returns
\* keccak(NULL) and leaves the store with keccak(NULL) mapped to the NULL
\* encoding, so that from(store, keccak(NULL)) succeeds with an empty trie.
C18_EmptyTrieDigest ==
    /\ op.name = "new" => root = Empty /\ root_hash = keccak256(NULL_RLP)
    /\ (op.name = "root" /\ kv = EmptyMap) =>
          /\ op.ret = Ok(keccak256(NULL_RLP))
          /\ db_get(db, keccak256(NULL_RLP)) = Some(NULL_RLP)
          /\ from_store(db, keccak256(NULL_RLP))
                = Ok([root |-> Empty, root_hash |-> keccak256(NULL_RLP)])

\* A node as a descent sees it: a Hash node read from the store.
resolved(store, n) ==
    IF n.t = "Hash" THEN recover_from_db(store, n.hash) ELSE n

RECURSIVE below(_, _)

\* The nodes below n in the trie, n left out, Hash nodes resolved.
below(store, n) ==
    Let(resolved(store, n), LAMBDA r :
        CASE r.t = "Branch" ->
                UNION {{resolved(store, r.children[i])} \cup below(store, r.children[i]) :
                          i \in 1..16}
          [] r.t = "Extension" -> {resolved(store, r.node)} \cup below(store, r.node)
          [] OTHER -> {})

\* The live slots of a Branch: its non-Empty children and its own value.
live_slots(store, b) ==
    Cardinality({i \in 1..16 : resolved(store, b.children[i]) # Empty})
        + (IF b.value = None THEN 0 ELSE 1)

\* C21. Branch invariant: after every public operation every Branch node
\* that is not the root of the trie has at least two live slots, its
\* non-Empty children and its own value counted as slots.
C21_BranchInvariant ==
    \A b \in below(db, root) : b.t = "Branch" => live_slots(db, b) >= 2

\* The nodes of the trie, the root among them, Hash nodes resolved.
trie_nodes(store, rt) == {resolved(store, rt)} \cup below(store, rt)

\* C22. Extension invariant: after every public operation every Extension
\* node has a non-empty prefix and its child, resolved from the store if it
\* is a Hash node, is a Branch.
C22_ExtensionInvariant ==
    \A e \in trie_nodes(db, root) :
        e.t = "Extension" => Len(e.prefix) > 0 /\ resolved(db, e.node).t = "Branch"

\* C23. Bookkeeping is bounded by commit: right after every successful
\* root() the pending write cache, passing_keys and gen_keys are empty and
\* root_hash is the digest root() returned.
C23_CommitResetsBookkeeping ==
    (op.name = "root" /\ op.ret.ok) =>
        /\ cache = << >>
        /\ passing_keys = {}
        /\ gen_keys = {}
        /\ root_hash = op.ret.val

\* The second root() of a run of inserts, root() and removes of stored keys
\* that left a key stored: the removes went through nodes of the store.
C23_Witness ==
    /\ op.name = "root" /\ op.ret.ok /\ op.phase = "IRD"
    /\ kv # EmptyMap
    /\ cache = << >> /\ passing_keys = {} /\ gen_keys = {}

\* The pairs of the map m.
pairs_of(m) == {<<k, m[k][1]>> : k \in {x \in Keys : m[x] # None}}

\* C24. Archive stores retain history: over a store that ignores remove,
\* for every digest r that root() returned, from(store, r) succeeds after
\* any later inserts, removes and root() calls, and the trie it opens holds
\* the pairs of the map that was current when r was returned, each once.
C24_ArchiveRetainsHistory ==
    op.name = "reopen" =>
        /\ op.ret.ok
        /\ op.ret.val.pairs = pairs_of(op.commit.map)
        /\ op.ret.val.count = Cardinality(pairs_of(op.commit.map))

\* The reopening of a digest of a map of two keys or more, after a later
\* root() whose map is another one.
C24_Witness ==
    /\ op.name = "reopen" /\ ~light
    /\ Cardinality(pairs_of(op.commit.map)) >= 2
    /\ op.commit.map # ckv
    /\ op.commit.digest # root_hash
    /\ op.ret.ok

\* C25. Reads do not touch commit bookkeeping: get, contains, get_proof and
\* iteration, on any trie state, leave the pending write cache, passing_keys
\* and gen_keys as they were, the three things beside the root and the
\* store that decide what the next root() writes and removes.
C25_ReadsKeepBookkeeping ==
    [][op'.name \in {"get", "contains", "get_proof", "iter"} =>
            /\ cache' = cache
            /\ passing_keys' = passing_keys
            /\ gen_keys' = gen_keys]_vars

\* C26. Re-derived nodes are kept: a digest that is in passing_keys and in
\* gen_keys when root() commits is in the store after it; and on a trie over
\* a light store with no insert or remove since the last root() or from(),
\* insert(k, v) with the value k has, then root(), returns the root digest
\* of before and leaves the store as it was.
C26_RederivedNodesKept ==
    [][op'.name = "root" =>
          /\ \A d \in passing_keys \cap root_gen_keys(gen_keys, encode_node(root)) :
                d \in DOMAIN db'
          /\ (op.name = "insert" /\ op.same /\ light) =>
                (op'.ret = Ok(root_hash) /\ db' = db)]_vars

\* root() right after the insert of the 32-byte value 0x0101 has, on a
\* committed trie of two keys or more: the insert went through nodes of
\* the store and root() derived them again.
C26_Witness ==
    /\ op.name = "root" /\ op.resame /\ light
    /\ kv[<<1, 1>>] = Some(LongValue)
    /\ Cardinality({k \in Keys : kv[k] # None}) >= 2
    /\ op.ret = Ok(root_hash)

\* The turn next() is about to make resolves a Hash node whose digest the
\* store lacks.
at_missing(store, st) ==
    /\ st.nodes # <<>>
    /\ Let(st.nodes[Len(st.nodes)], LAMBDA now :
           /\ now.status.s = "Doing"
           /\ now.node.t = "Hash"
           /\ db_get(store, now.node.hash) = None)

RECURSIVE next_missing(_, _, _, _)

\* TrieIterator::next as iter_next models it, with missed: one of its turns
\* was at a Hash node whose digest the store lacks.
next_missing(store, st, fuel, missed) ==
    IF fuel = 0
    THEN [ret |-> "continue", item |-> None, st |-> st, fuel |-> 0, missed |-> missed]
    ELSE Let(iter_turn(store, st), LAMBDA r :
             IF r.ret = "continue"
             THEN IF missed \/ at_missing(store, st)
                  THEN next_missing(store, r.st, fuel - 1, TRUE)
                  ELSE next_missing(store, r.st, fuel - 1, FALSE)
             ELSE [ret |-> r.ret, item |-> r.item, st |-> r.st, fuel |-> fuel - 1,
                   missed |-> missed])

RECURSIVE yields_after_missing(_, _, _)

\* Some next() of the iteration from st on returns an item after a turn at
\* a Hash node whose digest the store lacks.
yields_after_missing(store, st, fuel) ==
    Let(next_missing(store, st, fuel, FALSE), LAMBDA r :
        /\ r.ret = "some"
        /\ (r.missed \/ yields_after_missing(store, r.st, r.fuel)))

\* C27. An iteration that reaches a Hash node whose digest is absent from
\* the store ends there: next() returns None and no later next() yields an
\* entry.
C27_MissingDigestEndsIteration ==
    op.name = "iter" =>
        ~yields_after_missing(db, trie_iter(root), MaxIterSteps)

\* C28. degenerate on an Extension whose child is a Hash node of a digest
\* absent from the store gives remove an error: after a remove that
\* returned Ok no Extension of the trie has an Empty child.
C28_MissingChildIsAnError ==
    (op.name = "remove" /\ op.ret.ok) =>
        \A e \in trie_nodes(db, root) : e.t = "Extension" => e.node # Empty

RECURSIVE descends_missing(_, _, _)

\* The descent of get_at from n along partial comes to a Hash node whose
\* digest the store lacks.
descends_missing(store, n, partial) ==
    CASE n.t = "Branch" ->
            /\ ~(Len(partial) = 0 \/ at(partial, 0) = 16)
            /\ descends_missing(store, n.children[at(partial, 0) + 1], offset(partial, 1))
      [] n.t = "Extension" ->
            /\ common_prefix(partial, n.prefix) = Len(n.prefix)
            /\ descends_missing(store, n.node, offset(partial, Len(n.prefix)))
      [] n.t = "Hash" ->
            \/ db_get(store, n.hash) = None
            \/ descends_missing(store, decode_node(store[n.hash]), partial)
      [] OTHER -> FALSE

\* C29. Tolerant descent: a get or contains whose descent comes to a Hash
\* node of a digest absent from the store takes it for Empty and returns
\* Ok(None) or Ok(false); no get, contains, insert, remove or root() returns
\* an error for a missing digest.
C29_TolerantDescent ==
    /\ (op.name = "get" /\ descends_missing(db, root, from_raw(op.key, TRUE)))
            => op.ret = Ok(None)
    /\ (op.name = "contains" /\ descends_missing(db, root, from_raw(op.key, TRUE)))
            => op.ret = Ok(FALSE)
    /\ op.name \in {"get", "contains", "insert", "remove", "root"} => op.ret.ok

\* get of a key of the committed map whose leaf the owner of the store
\* removed.
C29_Witness ==
    /\ op.name = "get"
    /\ descends_missing(db, root, from_raw(op.key, TRUE))
    /\ kv[op.key] # None
    /\ op.ret = Ok(None)

RECURSIVE hash_path(_, _, _)

\* The digests of the Hash nodes the descent of get_path_at from n along
\* partial resolves, in the order of the descent.
hash_path(store, n, partial) ==
    CASE n.t = "Branch" ->
            IF Len(partial) = 0 \/ at(partial, 0) = 16 THEN <<>>
            ELSE hash_path(store, n.children[at(partial, 0) + 1], offset(partial, 1))
      [] n.t = "Extension" ->
            IF common_prefix(partial, n.prefix) = Len(n.prefix)
            THEN hash_path(store, n.node, offset(partial, Len(n.prefix)))
            ELSE <<>>
      [] n.t = "Hash" ->
            Let(recover_from_db(store, n.hash), LAMBDA r :
                IF IsErr(r) THEN <<n.hash>>
                ELSE <<n.hash>> \o hash_path(store, r, partial))
      [] OTHER -> <<>>

\* C30. Proof shape: on a trie that is not empty and has no insert or remove
\* since the last root() or from(), get_proof(k) returns the encoded root
\* first, then, in the order of the descent, the blobs of the store under
\* the digests of the Hash nodes on the path of k and nothing else; every
\* entry after the first is 32 bytes long or longer.
C30_ProofShape ==
    (op.name = "get_proof" /\ clean /\ root.t # "Empty") =>
        /\ op.ret.ok
        /\ Let(hash_path(db, root, from_raw(op.key, TRUE)), LAMBDA hp :
               /\ Len(op.ret.val) = 1 + Len(hp)
               /\ keccak256(op.ret.val[1]) = root_hash
               /\ \A i \in 1..Len(hp) : db_get(db, hp[i]) = Some(op.ret.val[i + 1])
               /\ \A i \in 2..Len(op.ret.val) : RlpSize(op.ret.val[i]) >= HASH_LEN)

RECURSIVE encoded_nodes(_)

\* The nodes encode_node is called with when encode_node(n) runs: n and,
\* unless n is a Hash node, the nodes below it in memory.
encoded_nodes(n) ==
    {n} \cup
    CASE n.t = "Branch" -> UNION {encoded_nodes(n.children[i]) : i \in 1..16}
      [] n.t = "Extension" -> encoded_nodes(n.node)
      [] OTHER -> {}

follows(n, s, s2) ==
    \/ s.s = "Start" /\ s2.s = "Doing"
    \/ s.s = "Doing" /\ n.t = "Branch" /\ s2.s = "Child" /\ s2.i = 0
    \/ s.s = "Doing" /\ n.t # "Branch" /\ s2.s = "End"
    \/ s.s = "Child" /\ s.i < 15 /\ s2.s = "Child" /\ s2.i = s.i + 1
    \/ s.s = "Child" /\ s.i = 15 /\ s2.s = "End"

\* What one turn of next() may do to the frames: those below the top stay;
\* the top frame takes its next status, or is popped, at End or when its
\* node is Empty, or, a Hash frame at Doing, is replaced by a frame at Start
\* of the node the store holds; a frame pushed above it is at Start.
frame_step(store, nodes, nodes2) ==
    IF nodes = <<>> THEN nodes2 = <<>>
    ELSE Let(nodes[Len(nodes)], LAMBDA top :
         /\ Len(nodes2) \in {Len(nodes) - 1, Len(nodes), Len(nodes) + 1}
         /\ \A j \in 1..(Len(nodes) - 1) : nodes2[j] = nodes[j]
         /\ Len(nodes2) = Len(nodes) - 1 =>
               top.status.s = "End" \/ top.node.t = "Empty"
         /\ Len(nodes2) >= Len(nodes) =>
               \/ /\ nodes2[Len(nodes)].node = top.node
                  /\ follows(top.node, top.status, nodes2[Len(nodes)].status)
               \/ /\ Len(nodes2) = Len(nodes)
                  /\ top.node.t = "Hash" /\ top.status.s = "Doing"
                  /\ nodes2[Len(nodes)] = TraceNode(recover_from_db(store, top.node.hash))
         /\ Len(nodes2) = Len(nodes) + 1 =>
               /\ nodes2[Len(nodes)].node = top.node
               /\ nodes2[Len(nodes2)].status.s = "Start")

\* C32. Iterator frame status is monotone: in every turn of next() the
\* top frame's status moves one place along Start, Doing, Child(0) ..
\* Child(15) (a Branch frame only), End, a frame that is not a Branch goes
\* from Doing to End, the frames below the top keep their status, and a
\* frame leaves the stack only at End, when its node is Empty, or as a Hash
\* frame replaced by its resolved node.
C32_FrameStatusMonotone ==
    [][(iterator.open /\ iterator'.open) => frame_step(db, iterator.st.nodes, iterator'.st.nodes)]_vars

\* An iteration of a committed trie inside the second child of the root
\* Branch: the Branch frame has gone through Child(0) and Child(1), the
\* child was a Hash frame, replaced by the Leaf the store holds, and the
\* Leaf frame has gone from Doing to End.
C32_Witness ==
    /\ iterator.open /\ clean
    /\ Len(iterator.st.nodes) = 2
    /\ iterator.st.nodes[1].node.t = "Branch"
    /\ iterator.st.nodes[1].status = TraceStatus("Child", 2)
    /\ iterator.st.nodes[1].node.children[2].t = "Hash"
    /\ iterator.st.nodes[2].node.t = "Leaf"
    /\ iterator.st.nodes[2].status.s = "End"

====
